---- MODULE Spec2Model ----
(***************************************************************************)
(* Needleman-Wunsch global alignment, homework2.py: global_alignment.      *)
(* One call is modelled as a state machine: boundary initialisation, the   *)
(* matrix fill, one action per traceback iteration, and the return.        *)
(* Sequences are TLA+ sequences of symbols; Python's 0-based and negative  *)
(* indexing is modelled by PyIdx/InRange. Symbols are drawn from an        *)
(* alphabet that does not contain the gap marker. Matrix cells are         *)
(* mathematical integers (numpy int64 does not overflow in these ranges).  *)
(***************************************************************************)
EXTENDS Integers, Sequences, FiniteSets, TLC

\* Bounds of the model.
MaxLen == 2
MaxParam == 2

Alphabet == {"A", "B"}
Gap == "-"
Params == (0 - 1)..MaxParam
Seqs == UNION {[1..k -> Alphabet] : k \in 0..MaxLen}

VARIABLES seq1, seq2, match_score, mismatch_penalty, gap_penalty,
          unpenalized_end_gaps, score_matrix, i, j,
          aligned_seq1, aligned_seq2, result, pc,
          call, first, first_matrix

vars == <<seq1, seq2, match_score, mismatch_penalty, gap_penalty,
          unpenalized_end_gaps, score_matrix, i, j,
          aligned_seq1, aligned_seq2, result, pc,
          call, first, first_matrix>>

inputs == <<seq1, seq2, match_score, mismatch_penalty, gap_penalty,
            unpenalized_end_gaps>>

M == Len(seq1)
N == Len(seq2)

\* ---------------------------------------------------------------------
\* Python indexing
\* ---------------------------------------------------------------------
\* An index k into a container of length len is valid iff -len <= k < len.
InRange(len, k) == (0 - len) <= k /\ k < len

\* The 0-based position a valid Python index denotes (negative wraps).
PyIdx(len, k) == IF k >= 0 THEN k ELSE len + k

\* s[k] in Python, for a valid k.
At(s, k) == s[PyIdx(Len(s), k) + 1]

\* mat[r][c] in numpy, negative indices wrapping.
CellOf(mat, rows, cols, r, c) == mat[PyIdx(rows, r)][PyIdx(cols, c)]

Cell(r, c) == CellOf(score_matrix, M + 1, N + 1, r, c)

Zeros(rows, cols) == [r \in 0..(rows - 1) |-> [c \in 0..(cols - 1) |-> 0]]

RECURSIVE Reverse(_)
Reverse(s) == IF s = <<>> THEN <<>> ELSE Append(Reverse(Tail(s)), Head(s))

\* ---------------------------------------------------------------------
\* Scoring
\* ---------------------------------------------------------------------
SubScore_Swapped(x, y, ms, mp) == IF x = y THEN 0 - mp ELSE ms

\* match_score if seq1[i-1] == seq2[j-1] else -mismatch_penalty
SubScore(x, y, ms, mp) == IF x = y THEN ms ELSE 0 - mp

BoundaryVal_NoFactor(k, gp, ueg) == IF ~ueg THEN 0 - gp ELSE 0

\* -gap_penalty * i if not unpenalized_end_gaps else 0
BoundaryVal(k, gp, ueg) == IF ~ueg THEN (0 - gp) * k ELSE 0

Max3_NoInsert(a, b, c) == IF a >= b THEN a ELSE b

\* max(match, delete, insert)
Max3(a, b, c) ==
    IF a >= b /\ a >= c THEN a ELSE IF b >= c THEN b ELSE c

InsertVal_Extra(mat, r, c, gp) == mat[r][c - 1] - gp - 1

\* insert = score_matrix[i][j-1] - gap_penalty
InsertVal(mat, r, c, gp) == mat[r][c - 1] - gp

\* delete = score_matrix[i-1][j] - gap_penalty
DeleteVal(mat, r, c, gp) == mat[r - 1][c] - gp

\* match = score_matrix[i-1][j-1] + (match or mismatch)
MatchVal(mat, s1, s2, r, c, ms, mp) ==
    mat[r - 1][c - 1] + SubScore(At(s1, r - 1), At(s2, c - 1), ms, mp)

\* The two initialisation loops: column 0 of rows 1..M, row 0 of columns 1..N.
InitBoundary(mat, m, n, gp, ueg) ==
    [r \in 0..m |-> [c \in 0..n |->
        IF r >= 1 /\ c = 0 THEN BoundaryVal(r, gp, ueg)
        ELSE IF r = 0 /\ c >= 1 THEN BoundaryVal(c, gp, ueg)
        ELSE mat[r][c]]]

\* One assignment of the fill loop body.
FillCell(mat, s1, s2, r, c, ms, mp, gp) ==
    [mat EXCEPT ![r][c] = Max3(MatchVal(mat, s1, s2, r, c, ms, mp),
                               DeleteVal(mat, r, c, gp),
                               InsertVal(mat, r, c, gp))]

\* The nested fill loops, row-major from cell (r, c) on.
RECURSIVE FillFrom(_, _, _, _, _, _, _, _)
FillFrom(mat, s1, s2, r, c, ms, mp, gp) ==
    IF r > Len(s1) \/ Len(s2) = 0 THEN mat
    ELSE IF c > Len(s2) THEN FillFrom(mat, s1, s2, r + 1, 1, ms, mp, gp)
    ELSE FillFrom(FillCell(mat, s1, s2, r, c, ms, mp, gp),
                  s1, s2, r, c + 1, ms, mp, gp)

\* ---------------------------------------------------------------------
\* Traceback conditions, in the order the code tests them
\* ---------------------------------------------------------------------
LoopCond == i > 0 \/ j > 0

DiagCond(r, c) ==
    /\ r > 0
    /\ c > 0
    /\ Cell(r, c) = Cell(r - 1, c - 1)
                    + SubScore(At(seq1, r - 1), At(seq2, c - 1),
                               match_score, mismatch_penalty)

UpCond_Unchecked(r, c) == r > 0

UpCond(r, c) ==
    /\ r > 0
    /\ Cell(r, c) = Cell(r - 1, c) - gap_penalty

\* The else branch: neither of the two tests succeeded.
LeftBranch == LoopCond /\ ~DiagCond(i, j) /\ ~UpCond(i, j)

NoResult == [a1 |-> <<>>, a2 |-> <<>>, score |-> 0]

\* ---------------------------------------------------------------------
\* The call
\* ---------------------------------------------------------------------
Init ==
    /\ seq1 \in Seqs
    /\ seq2 \in Seqs
    /\ match_score \in Params
    /\ mismatch_penalty \in Params
    /\ gap_penalty \in Params
    /\ unpenalized_end_gaps \in BOOLEAN
    /\ score_matrix = Zeros(Len(seq1) + 1, Len(seq2) + 1)
    /\ i = 0
    /\ j = 0
    /\ aligned_seq1 = <<>>
    /\ aligned_seq2 = <<>>
    /\ result = NoResult
    /\ pc = "init"
    /\ call = 1
    /\ first = NoResult
    /\ first_matrix = <<>>

Initialization ==
    /\ pc = "init"
    /\ score_matrix' = InitBoundary(score_matrix, M, N, gap_penalty,
                                    unpenalized_end_gaps)
    /\ pc' = "fill"
    /\ UNCHANGED <<inputs, i, j, aligned_seq1, aligned_seq2, result,
                   call, first, first_matrix>>

Fill ==
    /\ pc = "fill"
    /\ score_matrix' = FillFrom(score_matrix, seq1, seq2, 1, 1, match_score,
                                mismatch_penalty, gap_penalty)
    /\ aligned_seq1' = <<>>
    /\ aligned_seq2' = <<>>
    /\ i' = M
    /\ j' = N
    /\ pc' = "traceback"
    /\ UNCHANGED <<inputs, result, call, first, first_matrix>>

TraceDiag ==
    /\ pc = "traceback"
    /\ LoopCond
    /\ DiagCond(i, j)
    /\ aligned_seq1' = Append(aligned_seq1, At(seq1, i - 1))
    /\ aligned_seq2' = Append(aligned_seq2, At(seq2, j - 1))
    /\ i' = i - 1
    /\ j' = j - 1
    /\ UNCHANGED <<inputs, score_matrix, result, pc, call, first,
                   first_matrix>>

TraceUp ==
    /\ pc = "traceback"
    /\ LoopCond
    /\ ~DiagCond(i, j)
    /\ UpCond(i, j)
    /\ aligned_seq1' = Append(aligned_seq1, At(seq1, i - 1))
    /\ aligned_seq2' = Append(aligned_seq2, Gap)
    /\ i' = i - 1
    /\ UNCHANGED <<inputs, score_matrix, j, result, pc, call, first,
                   first_matrix>>

TraceLeft ==
    /\ pc = "traceback"
    /\ LeftBranch
    /\ InRange(N, j - 1)
    /\ aligned_seq1' = Append(aligned_seq1, Gap)
    /\ aligned_seq2' = Append(aligned_seq2, At(seq2, j - 1))
    /\ j' = j - 1
    /\ UNCHANGED <<inputs, score_matrix, i, result, pc, call, first,
                   first_matrix>>

\* seq2[j-1] raises IndexError: the call ends without a result.
TraceLeftError ==
    /\ pc = "traceback"
    /\ LeftBranch
    /\ ~InRange(N, j - 1)
    /\ pc' = "error"
    /\ UNCHANGED <<inputs, score_matrix, i, j, aligned_seq1, aligned_seq2,
                   result, call, first, first_matrix>>

Return ==
    /\ pc = "traceback"
    /\ ~LoopCond
    /\ result' = [a1 |-> Reverse(aligned_seq1),
                  a2 |-> Reverse(aligned_seq2),
                  score |-> Cell(M, N)]
    /\ pc' = "done"
    /\ UNCHANGED <<inputs, score_matrix, i, j, aligned_seq1, aligned_seq2,
                   call, first, first_matrix>>

\* A second call with the two sequences exchanged and the same parameters.
SwappedCall ==
    /\ pc = "done"
    /\ call = 1
    /\ call' = 2
    /\ first' = result
    /\ first_matrix' = score_matrix
    /\ seq1' = seq2
    /\ seq2' = seq1
    /\ score_matrix' = Zeros(Len(seq2) + 1, Len(seq1) + 1)
    /\ i' = 0
    /\ j' = 0
    /\ aligned_seq1' = <<>>
    /\ aligned_seq2' = <<>>
    /\ result' = NoResult
    /\ pc' = "init"
    /\ UNCHANGED <<match_score, mismatch_penalty, gap_penalty,
                   unpenalized_end_gaps>>

Next ==
    \/ Initialization
    \/ Fill
    \/ TraceDiag
    \/ TraceUp
    \/ TraceLeft
    \/ TraceLeftError
    \/ Return

Spec == Init /\ [][Next]_vars

NextSym == Next \/ SwappedCall

SpecSym == Init /\ [][NextSym]_vars

\* ---------------------------------------------------------------------
\* Reference notions used to state the properties
\* ---------------------------------------------------------------------
\* Every global alignment of a length-m prefix with a length-n prefix, as the
\* sequence of its columns: "D" pairs two symbols, "U" pairs a symbol of
\* seq1 with a gap, "L" pairs a gap with a symbol of seq2.
RECURSIVE Alignments(_, _)
Alignments(m, n) ==
    IF m = 0 /\ n = 0 THEN {<<>>}
    ELSE (IF m > 0 /\ n > 0
            THEN {Append(a, "D") : a \in Alignments(m - 1, n - 1)} ELSE {})
         \cup (IF m > 0 THEN {Append(a, "U") : a \in Alignments(m - 1, n)}
               ELSE {})
         \cup (IF n > 0 THEN {Append(a, "L") : a \in Alignments(m, n - 1)}
               ELSE {})

AllAlignments ==
    [m \in 0..MaxLen |-> [n \in 0..MaxLen |-> Alignments(m, n)]]

\* Total score of alignment p of the length-m prefix of seq1 with the
\* length-n prefix of seq2, every column scored.
RECURSIVE PathScore(_, _, _)
PathScore(p, m, n) ==
    IF p = <<>> THEN 0
    ELSE LET last == p[Len(p)]
             rest == SubSeq(p, 1, Len(p) - 1)
         IN  IF last = "D"
               THEN PathScore(rest, m - 1, n - 1)
                    + (IF seq1[m] = seq2[n] THEN match_score
                       ELSE 0 - mismatch_penalty)
             ELSE IF last = "U"
               THEN PathScore(rest, m - 1, n) - gap_penalty
             ELSE PathScore(rest, m, n - 1) - gap_penalty

MaxOf(S) == CHOOSE x \in S : \A y \in S : x >= y

BestScore(m, n) == MaxOf({PathScore(p, m, n) : p \in AllAlignments[m][n]})

\* Positions of the paired ("D") columns of p.
Paired(p) == {k \in 1..Len(p) : p[k] = "D"}

\* Is column k of p part of the leading or of the trailing run of gap columns?
EndGap(p, k) ==
    /\ p[k] # "D"
    /\ \/ \A d \in Paired(p) : k < d
       \/ \A d \in Paired(p) : k > d

\* Score of column k of a complete alignment p of seq1 with seq2.
ColumnOf(p, k) ==
    LET m == Cardinality({h \in 1..k : p[h] # "L"})
        n == Cardinality({h \in 1..k : p[h] # "U"})
    IN  IF p[k] = "D"
          THEN (IF seq1[m] = seq2[n] THEN match_score
                ELSE 0 - mismatch_penalty)
        ELSE 0 - gap_penalty

RECURSIVE SumTo(_, _, _)
SumTo(p, k, free) ==
    IF k = 0 THEN 0
    ELSE SumTo(p, k - 1, free)
         + (IF free /\ EndGap(p, k) THEN 0 ELSE ColumnOf(p, k))

\* Best total score when leading and trailing gap columns cost nothing.
BestEndFreeScore ==
    MaxOf({SumTo(p, Len(p), TRUE) : p \in AllAlignments[M][N]})

Degap(s) == SelectSeq(s, LAMBDA x : x # Gap)

\* Score of the columns of a returned alignment (a1, a2 of equal length).
RECURSIVE ColumnsScore(_, _, _)
ColumnsScore(a1, a2, k) ==
    IF k = 0 THEN 0
    ELSE ColumnsScore(a1, a2, k - 1)
         + (IF a1[k] = Gap \/ a2[k] = Gap THEN 0 - gap_penalty
            ELSE IF a1[k] = a2[k] THEN match_score
            ELSE 0 - mismatch_penalty)

GapRun(n) == [k \in 1..n |-> Gap]

Filled == pc \in {"traceback", "done", "error"}

\* ---------------------------------------------------------------------
\* Properties
\* ---------------------------------------------------------------------

\* C1: a returned alignment has outputs of equal length, and deleting the
\* gap markers from each output gives back the corresponding input.
ClaimC1_Reconstructs ==
    pc = "done" =>
        /\ Len(result.a1) = Len(result.a2)
        /\ Degap(result.a1) = seq1
        /\ Degap(result.a2) = seq2

\* C2: the call is total: it never ends in an error (an index outside the
\* bounds of seq1, seq2 or the matrix).
ClaimC2_Total == pc # "error"

\* C3: without unpenalized end gaps, after the fill every cell (r, c) is the
\* maximum total score over all global alignments of the length-r prefix of
\* seq1 with the length-c prefix of seq2, and the returned score is cell(M,N).
ThmC3_CellsOptimal ==
    (Filled /\ ~unpenalized_end_gaps) =>
        /\ \A r \in 0..M : \A c \in 0..N :
               score_matrix[r][c] = BestScore(r, c)
        /\ pc = "done" => result.score = BestScore(M, N)

WitC3_InsertOnlyOptimum ==
    /\ pc = "traceback"
    /\ ~unpenalized_end_gaps
    /\ i = M /\ j = N
    /\ M >= 1 /\ N >= 2
    /\ LeftBranch
    /\ gap_penalty > 0

\* C4: without unpenalized end gaps, the returned alignment is an optimal
\* alignment of seq1 with seq2: its column scores sum to the returned score
\* cell(M,N), which is the best score, and no column holds two gap markers.
ThmC4_TracebackOptimal ==
    (pc = "done" /\ ~unpenalized_end_gaps) =>
        /\ Len(result.a1) = Len(result.a2)
        /\ Degap(result.a1) = seq1
        /\ Degap(result.a2) = seq2
        /\ \A k \in 1..Len(result.a1) :
               ~(result.a1[k] = Gap /\ result.a2[k] = Gap)
        /\ result.score = score_matrix[M][N]
        /\ ColumnsScore(result.a1, result.a2, Len(result.a1)) = result.score
        /\ result.score = BestScore(M, N)

WitC4_MixedAlignment ==
    /\ pc = "done"
    /\ ~unpenalized_end_gaps
    /\ M >= 2 /\ N >= 1
    /\ \E k \in 1..Len(result.a1) : result.a2[k] = Gap
    /\ \E k \in 1..Len(result.a1) :
           result.a1[k] # Gap /\ result.a2[k] # Gap
    /\ gap_penalty > 0

ThmC7_Identical ==
    (seq1 = seq2 /\ match_score > 0 /\ mismatch_penalty >= 0
       /\ gap_penalty >= 0) =>
        /\ pc # "error"
        /\ pc = "done" =>
            /\ result.score = match_score * M
            /\ result.a1 = seq1
            /\ result.a2 = seq1
            /\ \A k \in 1..Len(result.a1) :
                   result.a1[k] # Gap /\ result.a2[k] # Gap

WitC7_IdenticalDone ==
    /\ pc = "done"
    /\ seq1 = seq2
    /\ M >= 2
    /\ seq1[1] # seq1[2]
    /\ match_score > 0 /\ mismatch_penalty >= 0 /\ gap_penalty > 0
    /\ unpenalized_end_gaps
    /\ result.score = match_score * M

\* C8: with unpenalized end gaps the returned score is the best total score
\* over all global alignments whose leading and trailing gap columns cost 0.
ClaimC8_EndGapsFree ==
    (pc = "done" /\ unpenalized_end_gaps) =>
        result.score = BestEndFreeScore

\* C9: the traceback position stays within 0..M and 0..N, the walk does not
\* fail, and it stops at (0,0) after at most M+N iterations.
ClaimC9_WalkInBounds ==
    /\ pc \in {"traceback", "done"} =>
           (0 <= i /\ i <= M /\ 0 <= j /\ j <= N)
    /\ pc # "error"
    /\ pc = "done" => (i = 0 /\ j = 0 /\ Len(aligned_seq1) <= M + N)

\* C10: whenever the traceback takes the else branch, j >= 1 and
\* cell(i,j) = cell(i,j-1) - gap_penalty.
ClaimC10_LeftValid ==
    (pc = "traceback" /\ LeftBranch) =>
        /\ j >= 1
        /\ Cell(i, j) = Cell(i, j - 1) - gap_penalty

====
